---------------------------- MODULE Spec2Model ----------------------------
(***************************************************************************)
(* InvenTree: the RuleSet consistency tests (users/tests.py) and the       *)
(* application start-up hooks (InvenTree/apps.py).                         *)
(*                                                                         *)
(* Three specifications share the module:                                  *)
(*   SpecTest  - the two test methods of RuleSetModelTest applied to every *)
(*               bounded RULESET_NAMES / RULESET_MODELS / table list;      *)
(*   Spec      - InvenTreeConfig.ready() and its four hooks, start-up      *)
(*               after start-up, against a changing Schedule table;        *)
(*   SpecRates - the same hooks against a running clock and a changing     *)
(*               base currency.                                            *)
(***************************************************************************)
EXTENDS Integers, Sequences, FiniteSets

VARIABLES
    \* ---- users/tests.py ----
    RULESET_NAMES,      \* RuleSet.RULESET_NAMES: list of group names
    RULESET_MODELS,     \* RuleSet.RULESET_MODELS: dict, as its items in iteration order
    available_tables,   \* db_table of every installed model (tests.py:54-60)
    ruleset_test,       \* test_ruleset_models: outcome and its locals
    names_test,         \* test_model_names: outcome and its locals
    \* ---- InvenTree/apps.py ----
    pc,                 \* position of the process inside ready()
    dbAccess,           \* canAppAccessDatabase() of the running process
    testMode,           \* isInTestMode() of the running process
    hooks,              \* hooks ready() has run in this process, in order
    schedule,           \* django_q Schedule table: func -> number of rows
    backend,            \* ExchangeBackend row 'InvenTreeExchange', or NoBackend
    base_currency,      \* currency_code_default()
    now,                \* wall clock, in days
    lookup,             \* how ExchangeBackend.objects.get(..) ended in this process
    rate_updates,       \* calls of InvenTree.tasks.update_exchange_rates by this process
    users               \* user table: set of user names

testVars == <<RULESET_NAMES, RULESET_MODELS, available_tables, ruleset_test, names_test>>
appVars  == <<pc, dbAccess, testMode, hooks, schedule, backend, base_currency,
              now, lookup, rate_updates, users>>
vars     == <<testVars, appVars>>

-----------------------------------------------------------------------------
(* Bounds and universes *)

\* longest model list of one ruleset
MaxModels == 1
\* most rows of one func the environment puts into the Schedule table
MaxRows == 2
\* last day of the clock
MaxDay == 2

GroupOrder == <<"part", "stock", "legacy">>
TableOrder == <<"part_part", "stock_stockitem", "orders_order">>

Range(s) == {s[i] : i \in 1..Len(s)}

GroupNames == Range(GroupOrder)
TableNames == Range(TableOrder)

\* the list holding the members of S, in the order of `order`
ListOf(order, S) == SelectSeq(order, LAMBDA x : x \in S)

\* the dict f (a function on some group names) as its items, keys in GroupOrder
ListOfItems(f) ==
    LET keys == ListOf(GroupOrder, DOMAIN f)
    IN  [i \in 1..Len(keys) |-> [key |-> keys[i], models |-> f[keys[i]]]]

SeqsUpTo(S, n) == UNION {[1..k -> S] : k \in 0..n}

\* a local that is not bound (yet), and one bound to v
Unbound  == << >>
Bound(v) == <<v>>

-----------------------------------------------------------------------------
(* users/tests.py *)

\* Python's `x in list`
InList(x, s) == \E i \in 1..Len(s) : s[i] = x

\* RuleSet.RULESET_MODELS.keys()
Keys(d) == [i \in 1..Len(d) |-> d[i].key]

\* RuleSet.RULESET_MODELS[key]
Lookup(d, k) == (CHOOSE i \in 1..Len(d) : d[i].key = k)

ModelsOf(d, k) == d[Lookup(d, k)].models

\* missing_rulesets with the `not` lost
missing_rulesets_inverted(names, keys) == SelectSeq(names, LAMBDA name : InList(name, keys))

\* missing = [name for name in RuleSet.RULESET_NAMES if name not in keys]
missing_rulesets(names, keys) == SelectSeq(names, LAMBDA name : ~InList(name, keys))

\* extra = [name for name in keys if name not in RuleSet.RULESET_NAMES]
extra_rulesets(keys, names) == SelectSeq(keys, LAMBDA name : ~InList(name, names))

\* empty_rulesets comparing the list itself with 0, which no list equals
empty_rulesets_never(d) == SelectSeq(Keys(d), LAMBDA key : FALSE)

\* empty = [key for key in keys if len(RuleSet.RULESET_MODELS[key]) == 0]
empty_rulesets(d) == SelectSeq(Keys(d), LAMBDA key : Len(ModelsOf(d, key)) = 0)

\* the three assertEqual(len(..), 0) closing test_ruleset_models
ruleset_asserts(missing, extra, empty) ==
    IF Len(missing) = 0 /\ Len(extra) = 0 /\ Len(empty) = 0 THEN "passed" ELSE "failed"

\* assigned_models after the loops: every m of every ruleset, in order
RECURSIVE assigned_models(_)
assigned_models(d) ==
    IF d = << >> THEN << >> ELSE d[1].models \o assigned_models(Tail(d))

\* count_errors with the check made against assigned_models, the wrong list
count_errors_wrong_list(d, tables) ==
    Len(SelectSeq(assigned_models(d), LAMBDA m : ~InList(m, assigned_models(d))))

\* errors after the loops: one for every m not in available_tables
count_errors(d, tables) ==
    Len(SelectSeq(assigned_models(d), LAMBDA m : ~InList(m, tables)))

\* self.assertEqual(errors, 0)
errors_assert(errors) == IF errors = 0 THEN "passed" ELSE "failed"

\* missing_models: every table not in assigned_models
uncovered_models(tables, assigned) ==
    SelectSeq(tables, LAMBDA model : ~InList(model, assigned))

\* missing_models_after with the assertion moved to the end of the test
missing_models_always(outcome, tables, assigned) == Bound(uncovered_models(tables, assigned))

\* the code after assertEqual(errors, 0) runs only when the assertion held
missing_models_after(outcome, tables, assigned) ==
    IF outcome = "passed" THEN Bound(uncovered_models(tables, assigned)) ELSE Unbound

\* names_outcome with missing_models asserted empty as well
names_outcome_strict(outcome, missing_models) ==
    IF outcome = "passed" /\ missing_models = Bound(<< >>) THEN "passed" ELSE "failed"

\* the outcome of test_model_names: nothing is asserted about missing_models,
\* they are only printed
names_outcome(outcome, missing_models) == outcome

NotRun == [status |-> "notrun"]

test_ruleset_models ==
    /\ ruleset_test.status = "notrun"
    /\ LET keys    == Keys(RULESET_MODELS)
           missing == missing_rulesets(RULESET_NAMES, keys)
           extra   == extra_rulesets(keys, RULESET_NAMES)
           empty   == empty_rulesets(RULESET_MODELS)
       IN  ruleset_test' = [status  |-> ruleset_asserts(missing, extra, empty),
                            missing |-> missing,
                            extra   |-> extra,
                            empty   |-> empty]
    /\ UNCHANGED <<RULESET_NAMES, RULESET_MODELS, available_tables, names_test>>
    /\ UNCHANGED appVars

test_model_names ==
    /\ names_test.status = "notrun"
    /\ LET assigned == assigned_models(RULESET_MODELS)
           errors   == count_errors(RULESET_MODELS, available_tables)
           asserted == errors_assert(errors)
           missing_models == missing_models_after(asserted, available_tables, assigned)
       IN  names_test' = [status          |-> names_outcome(asserted, missing_models),
                          errors          |-> errors,
                          assigned_models |-> assigned,
                          missing_models  |-> missing_models]
    /\ UNCHANGED <<RULESET_NAMES, RULESET_MODELS, available_tables, ruleset_test>>
    /\ UNCHANGED appVars

-----------------------------------------------------------------------------
(* InvenTree/apps.py                                                       *)
(*                                                                         *)
(* ready() is one step per hook it calls, so that the order of the hooks   *)
(* is state.  The `except AppRegistryNotReady` branches of the hooks are   *)
(* not modelled: Django calls ready() when the app registry is populated,  *)
(* and there the imports they guard succeed.  The database is changed by   *)
(* others only between two runs of the server.                             *)

\* obsolete with its second entry lost
obsolete_first_only == {"InvenTree.tasks.delete_expired_sessions"}

\* remove_obsolete_tasks: the list `obsolete`
obsolete ==
    {"InvenTree.tasks.delete_expired_sessions",
     "stock.tasks.delete_old_stock_items"}

\* start_background_tasks: the tasks it schedules, in order
background_tasks ==
    <<"InvenTree.tasks.delete_successful_tasks",
      "InvenTree.tasks.check_for_updates",
      "InvenTree.tasks.heartbeat",
      "InvenTree.tasks.update_exchange_rates",
      "InvenTree.tasks.delete_old_error_logs",
      "common.tasks.delete_old_notifications">>

\* the funcs a Schedule row may hold: the ones apps.py names and one it does
\* not name (a plugin's, a user's)
Funcs ==
    {"InvenTree.tasks.delete_expired_sessions",
     "stock.tasks.delete_old_stock_items",
     "InvenTree.tasks.delete_successful_tasks",
     "InvenTree.tasks.check_for_updates",
     "InvenTree.tasks.heartbeat",
     "InvenTree.tasks.update_exchange_rates",
     "InvenTree.tasks.delete_old_error_logs",
     "common.tasks.delete_old_notifications",
     "plugin.tasks.custom"}

\* Schedule.objects.filter(func__in=obsolete).delete()
delete_obsolete(s) == [f \in Funcs |-> IF f \in obsolete THEN 0 ELSE s[f]]

\* InvenTree.tasks.schedule_task(taskname, ..): a row is created unless one
\* with this func exists
schedule_task(s, taskname) ==
    IF s[taskname] > 0 THEN s ELSE [s EXCEPT ![taskname] = 1]

RECURSIVE schedule_all(_, _)
schedule_all(s, tasks) ==
    IF tasks = << >> THEN s
    ELSE schedule_all(schedule_task(s, Head(tasks)), Tail(tasks))

Currencies == {"USD", "EUR"}

NoBackend == [exists |-> FALSE]
None == << >>

\* the days after which the docstring no longer calls an update recent
RecentDays == 1

\* InvenTree.tasks.update_exchange_rates(): the backend row after the call
exchange_task(ok, b, base, today) ==
    IF ok THEN [exists |-> TRUE, last_update |-> <<today>>, base_currency |-> base]
    ELSE b

\* ExchangeBackend.objects.get(name='InvenTreeExchange')
backend_get(b, db_error) ==
    IF db_error THEN "error" ELSE IF b.exists THEN "found" ELSE "DoesNotExist"

\* the local `update` when the method reaches `if update:`
update_flag(b, base, got) ==
    IF got = "DoesNotExist" THEN TRUE
    ELSE (b.last_update = None) \/ ~(base = b.base_currency)

\* ready(): if canAppAccessDatabase()
after_ready(db) == IF db THEN "remove_obsolete_tasks" ELSE "done"

\* after_start without the test-mode guard
after_start_always(test) == "update_exchange_rates"

\* ready(): if not isInTestMode()
after_start(test) == IF ~test THEN "update_exchange_rates" ELSE "add_user_on_startup"

\* Django calls ready() once in every process it sets up
ready ==
    /\ pc = "stopped"
    /\ \E db \in BOOLEAN, test \in BOOLEAN :
          /\ dbAccess' = db
          /\ testMode' = test
          /\ pc' = after_ready(db)
    /\ hooks' = << >>
    /\ lookup' = "none"
    /\ rate_updates' = 0
    /\ UNCHANGED <<schedule, backend, base_currency, now, users>>
    /\ UNCHANGED testVars

remove_obsolete_tasks ==
    /\ pc = "remove_obsolete_tasks"
    /\ schedule' = delete_obsolete(schedule)
    /\ hooks' = Append(hooks, "remove_obsolete_tasks")
    /\ pc' = "start_background_tasks"
    /\ UNCHANGED <<dbAccess, testMode, backend, base_currency, now, lookup,
                   rate_updates, users>>
    /\ UNCHANGED testVars

start_background_tasks ==
    /\ pc = "start_background_tasks"
    /\ schedule' = schedule_all(schedule, background_tasks)
    /\ hooks' = Append(hooks, "start_background_tasks")
    /\ pc' = after_start(testMode)
    /\ UNCHANGED <<dbAccess, testMode, backend, base_currency, now, lookup,
                   rate_updates, users>>
    /\ UNCHANGED testVars

update_exchange_rates ==
    /\ pc = "update_exchange_rates"
    /\ \E db_error \in BOOLEAN, ok \in BOOLEAN :
          LET got == backend_get(backend, db_error) IN
          /\ lookup' = got
          /\ IF got = "error"
             THEN \* some other error: return
                  UNCHANGED <<backend, rate_updates>>
             ELSE IF update_flag(backend, base_currency, got)
             THEN /\ rate_updates' = rate_updates + 1
                  /\ backend' = exchange_task(ok, backend, base_currency, now)
             ELSE UNCHANGED <<backend, rate_updates>>
    /\ hooks' = Append(hooks, "update_exchange_rates")
    /\ pc' = "add_user_on_startup"
    /\ UNCHANGED <<dbAccess, testMode, schedule, base_currency, now, users>>
    /\ UNCHANGED testVars

UserNames == {"admin"}
\* a setting that is not given: get_setting's default, False
Unset == ""

add_user_on_startup ==
    /\ pc = "add_user_on_startup"
    /\ \E add_user \in UserNames \cup {Unset}, add_email \in BOOLEAN,
          add_password \in BOOLEAN :
          IF ~(add_user # Unset /\ add_email /\ add_password)
          THEN \* not all required settings are present
               UNCHANGED users
          ELSE IF add_user \in users
          THEN \* create_user raises, the exception is printed
               UNCHANGED users
          ELSE users' = users \cup {add_user}
    /\ hooks' = Append(hooks, "add_user_on_startup")
    /\ pc' = "done"
    /\ UNCHANGED <<dbAccess, testMode, schedule, backend, base_currency, now,
                   lookup, rate_updates>>
    /\ UNCHANGED testVars

\* the process ends; the next one starts with ready() again
process_exits ==
    /\ pc = "done"
    /\ pc' = "stopped"
    /\ UNCHANGED <<dbAccess, testMode, hooks, schedule, backend, base_currency,
                   now, lookup, rate_updates, users>>
    /\ UNCHANGED testVars

-----------------------------------------------------------------------------
(* The database and the settings between two runs of the server *)

\* rows of one func: schedule_task keeps the funcs it schedules at one row
RowCap(f) == IF f \in Range(background_tasks) THEN 1 ELSE MaxRows

\* somebody else (an older release, a plugin, an admin) adds a Schedule row
schedule_row_added ==
    /\ pc = "stopped"
    /\ \E f \in Funcs :
          /\ schedule[f] < RowCap(f)
          /\ schedule' = [schedule EXCEPT ![f] = @ + 1]
    /\ UNCHANGED <<pc, dbAccess, testMode, hooks, backend, base_currency, now,
                   lookup, rate_updates, users>>
    /\ UNCHANGED testVars

\* somebody else deletes a Schedule row
schedule_row_deleted ==
    /\ pc = "stopped"
    /\ \E f \in Funcs :
          /\ schedule[f] > 0
          /\ schedule' = [schedule EXCEPT ![f] = @ - 1]
    /\ UNCHANGED <<pc, dbAccess, testMode, hooks, backend, base_currency, now,
                   lookup, rate_updates, users>>
    /\ UNCHANGED testVars

day_passes ==
    /\ pc = "stopped"
    /\ now < MaxDay
    /\ now' = now + 1
    /\ UNCHANGED <<pc, dbAccess, testMode, hooks, schedule, backend, base_currency,
                   lookup, rate_updates, users>>
    /\ UNCHANGED testVars

\* the default currency setting is changed
base_currency_changed ==
    /\ pc = "stopped"
    /\ \E c \in Currencies \ {base_currency} : base_currency' = c
    /\ UNCHANGED <<pc, dbAccess, testMode, hooks, schedule, backend, now,
                   lookup, rate_updates, users>>
    /\ UNCHANGED testVars

-----------------------------------------------------------------------------
(* Specifications *)

NoTests ==
    /\ RULESET_NAMES = << >>
    /\ RULESET_MODELS = << >>
    /\ available_tables = << >>
    /\ ruleset_test = NotRun
    /\ names_test = NotRun

NoProcess ==
    /\ pc = "stopped"
    /\ dbAccess = FALSE
    /\ testMode = FALSE
    /\ hooks = << >>
    /\ lookup = "none"
    /\ rate_updates = 0

\* every dict over the group names: each key once, each value a list of tables
RuleSetDicts ==
    UNION { { ListOfItems(f) : f \in [K -> SeqsUpTo(TableNames, MaxModels)] }
            : K \in SUBSET GroupNames }

InitTest ==
    /\ RULESET_NAMES \in {ListOf(GroupOrder, S) : S \in SUBSET GroupNames}
    /\ RULESET_MODELS \in RuleSetDicts
    /\ available_tables \in {ListOf(TableOrder, S) : S \in SUBSET TableNames}
    /\ ruleset_test = NotRun
    /\ names_test = NotRun
    /\ NoProcess
    /\ schedule = [f \in Funcs |-> 0]
    /\ backend = NoBackend
    /\ base_currency = "USD"
    /\ now = 0
    /\ users = {}

NextTest == test_ruleset_models \/ test_model_names

SpecTest == InitTest /\ [][NextTest]_vars

Init ==
    /\ NoTests
    /\ NoProcess
    /\ schedule \in {s \in [Funcs -> 0..MaxRows] : \A f \in Funcs : s[f] <= RowCap(f)}
    /\ backend = NoBackend
    /\ base_currency = "USD"
    /\ now = 0
    /\ users \in SUBSET UserNames

Hooks ==
    \/ ready
    \/ remove_obsolete_tasks
    \/ start_background_tasks
    \/ update_exchange_rates
    \/ add_user_on_startup
    \/ process_exits

Next == Hooks \/ schedule_row_added \/ schedule_row_deleted

Spec == Init /\ [][Next]_vars

Backends(today) ==
    {NoBackend} \cup
    [exists : {TRUE},
     last_update : {None} \cup {<<d>> : d \in 0..today},
     base_currency : Currencies]

InitRates ==
    /\ NoTests
    /\ NoProcess
    /\ schedule = [f \in Funcs |-> 0]
    /\ now = 0
    /\ backend \in Backends(now)
    /\ base_currency \in Currencies
    /\ users = {}

NextRates == Hooks \/ day_passes \/ base_currency_changed

SpecRates == InitRates /\ [][NextRates]_vars

-----------------------------------------------------------------------------
(* What the properties speak of: the registry, the expected names and the   *)
(* live tables as sets                                                      *)

KeySet        == {RULESET_MODELS[i].key : i \in 1..Len(RULESET_MODELS)}
ExpectedNames == Range(RULESET_NAMES)
LiveResources == Range(available_tables)
ResourcesFor(g) ==
    UNION {Range(RULESET_MODELS[i].models) :
             i \in {j \in 1..Len(RULESET_MODELS) : RULESET_MODELS[j].key = g}}
Declared      == UNION {ResourcesFor(g) : g \in KeySet}

MissingSet  == ExpectedNames \ KeySet
ExtraSet    == KeySet \ ExpectedNames
EmptySet    == {g \in KeySet : ResourcesFor(g) = {}}
InvalidRefs == Declared \ LiveResources
Uncovered   == LiveResources \ Declared

RulesetRan == ruleset_test.status # "notrun"
NamesRan   == names_test.status # "notrun"

\* C1: once test_ruleset_models has run, its `missing` holds exactly the
\* expected names that are no key of the registry and its `extra` exactly the
\* keys that are no expected name; both are empty exactly when the key set
\* equals the expected names, and the test has failed if either is not empty.
C1_GroupNamesChecked ==
    RulesetRan =>
        /\ Range(ruleset_test.missing) = MissingSet
        /\ Range(ruleset_test.extra) = ExtraSet
        /\ (Len(ruleset_test.missing) = 0 /\ Len(ruleset_test.extra) = 0)
              <=> (KeySet = ExpectedNames)
        /\ (MissingSet # {} \/ ExtraSet # {}) => ruleset_test.status = "failed"

\* the registry lacks an expected group, has one that is not expected, and
\* the test has failed
C1_Witness ==
    /\ RulesetRan
    /\ MissingSet = {"stock"}
    /\ ExtraSet = {"legacy"}
    /\ ruleset_test.status = "failed"

\* C2: once test_ruleset_models has run, its `empty` holds exactly the
\* declared groups with no resource, and the test has failed if there is one.
C2_EmptyGroupsChecked ==
    RulesetRan =>
        /\ Range(ruleset_test.empty) = EmptySet
        /\ EmptySet # {} => ruleset_test.status = "failed"

\* the group names are right, one group has no resources, the test has failed
C2_Witness ==
    /\ RulesetRan
    /\ MissingSet = {}
    /\ ExtraSet = {}
    /\ EmptySet = {"stock"}
    /\ ruleset_test.status = "failed"

\* C3: once test_model_names has run, its error count is zero exactly when no
\* declared resource is missing from the live tables, and the test has passed
\* exactly when the count is zero.
C3_NoDanglingReferences ==
    NamesRan =>
        /\ (names_test.errors = 0) <=> (InvalidRefs = {})
        /\ (names_test.errors = 0) <=>
              (\A g \in KeySet : \A r \in ResourcesFor(g) : r \in LiveResources)
        /\ (names_test.status = "passed") <=> (names_test.errors = 0)

\* a single declared resource is no live table, and the test has failed
C3_Witness ==
    /\ NamesRan
    /\ Cardinality(Declared) = 2
    /\ Cardinality(InvalidRefs) = 1
    /\ names_test.status = "failed"

\* C4: the missing_models test_model_names prints are the live tables no
\* group declares, and they decide nothing: when no expected group is
\* missing, no group is extra or empty and no reference is invalid, both tests
\* have passed once run, whatever is uncovered.
C4_UncoveredIsAdvisory ==
    /\ names_test.status = "passed" =>
          /\ names_test.missing_models # Unbound
          /\ Range(names_test.missing_models[1]) = Uncovered
    /\ (RulesetRan /\ NamesRan /\ MissingSet = {} /\ ExtraSet = {}
          /\ EmptySet = {} /\ InvalidRefs = {})
       => (ruleset_test.status = "passed" /\ names_test.status = "passed")

\* the example of the specification: orders_order is uncovered, all passes
C4_Witness ==
    /\ RULESET_NAMES = <<"part", "stock">>
    /\ RULESET_MODELS = <<[key |-> "part", models |-> <<"part_part">>],
                          [key |-> "stock", models |-> <<"stock_stockitem">>]>>
    /\ available_tables = <<"part_part", "stock_stockitem", "orders_order">>
    /\ ruleset_test.status = "passed"
    /\ names_test.status = "passed"
    /\ names_test.missing_models = Bound(<<"orders_order">>)

-----------------------------------------------------------------------------
(* Start-up *)

\* the funcs the property calls obsolete
ObsoleteFuncs == {"InvenTree.tasks.delete_expired_sessions",
                  "stock.tasks.delete_old_stock_items"}

NoObsoleteRow == \A f \in ObsoleteFuncs : schedule[f] = 0

NotUpdatedRecently ==
    \/ ~backend.exists
    \/ backend.last_update = None
    \/ now - backend.last_update[1] > RecentDays

BaseCurrencyDiffers == backend.exists /\ backend.base_currency # base_currency

\* C6: when update_exchange_rates runs and can read the exchange backend, it
\* calls the exchange-rate update if the rates were not updated within the
\* last day or the backend's base currency is not the configured one.
C6_UpdatesWhenNotRecent ==
    [][(/\ pc = "update_exchange_rates"
        /\ pc' = "add_user_on_startup"
        /\ lookup' # "error"
        /\ NotUpdatedRecently \/ BaseCurrencyDiffers)
       => rate_updates' = rate_updates + 1]_vars

\* C7 (as claimed): whenever ready() has completed, the Schedule table holds
\* no row of an obsolete func.
C7_NoObsoleteAfterReady == pc = "done" => NoObsoleteRow

\* C7 (amended): remove_obsolete_tasks deletes every row of an obsolete func
\* and leaves the rows of every other func as they are, and whenever ready()
\* has completed in a process that can access the database, the Schedule
\* table holds no row of an obsolete func.
C7_NoObsoleteAfterReadyWithDatabase ==
    /\ [][(pc = "remove_obsolete_tasks" /\ pc' # pc) =>
            /\ \A f \in ObsoleteFuncs : schedule'[f] = 0
            /\ \A f \in Funcs \ ObsoleteFuncs : schedule'[f] = schedule[f]]_vars
    /\ []((pc = "done" /\ dbAccess) => NoObsoleteRow)

\* ready() has completed with the database, the background tasks are
\* scheduled and the rows of the func the code does not name are still there
C7_Witness ==
    /\ pc = "done"
    /\ dbAccess
    /\ schedule["plugin.tasks.custom"] = MaxRows
    /\ \A i \in 1..Len(background_tasks) : schedule[background_tasks[i]] = 1
    /\ NoObsoleteRow

ExpectedHooks ==
    IF ~dbAccess THEN << >>
    ELSE IF testMode
    THEN <<"remove_obsolete_tasks", "start_background_tasks", "add_user_on_startup">>
    ELSE <<"remove_obsolete_tasks", "start_background_tasks",
           "update_exchange_rates", "add_user_on_startup">>

\* C8: the hooks a process has run are always the first ones of
\* remove_obsolete_tasks, start_background_tasks, update_exchange_rates,
\* add_user_on_startup, without update_exchange_rates in test mode and none
\* at all without database access; when ready() has completed all of them
\* have run; and no obsolete row is left when the tasks are scheduled.
C8_HooksGatedAndOrdered ==
    /\ Len(hooks) <= Len(ExpectedHooks)
    /\ hooks = SubSeq(ExpectedHooks, 1, Len(hooks))
    /\ pc = "done" => hooks = ExpectedHooks
    /\ pc = "start_background_tasks" => (NoObsoleteRow /\ dbAccess)
    /\ pc = "update_exchange_rates" => (dbAccess /\ ~testMode)

\* a start-up outside test mode has run all four hooks
C8_Witness ==
    /\ pc = "done"
    /\ dbAccess
    /\ ~testMode
    /\ Len(hooks) = 4

=============================================================================
